---- MODULE Spec2Model ----
(***************************************************************************)
(* A model of src/train.py: the training script of the EMOVO speech        *)
(* emotion classifier.  The module models                                  *)
(*   - the three pure computations of the script (the partition sizes,     *)
(*     the learning-rate multiplier, the best-model selection), each as an *)
(*     operator, exercised by a specification of its own that draws the    *)
(*     arguments from bounded sets;                                        *)
(*   - the run of the script (the body of __main__ with train_one_epoch    *)
(*     inlined statement by statement) as a state machine.                 *)
(*                                                                         *)
(* Numbers.  Python floats that the script only compares (the metrics) are *)
(* integers, with -inf and +inf below and above every finite value and a   *)
(* NaN that compares false with everything.  Floats that the script        *)
(* divides (the multiplier) are fractions [num, den] with den > 0;         *)
(* den = 0 is the ZeroDivisionError Python raises.  Ratios of the          *)
(* configuration are fractions in tenths; int(ratio * n) is the truncation *)
(* of the double product, which differs from the exact one where the       *)
(* double product falls just below an integer.                             *)
(***************************************************************************)
EXTENDS Integers, Sequences, FiniteSets, TLC

VARIABLES
    \* ---- the run of __main__ ----
    pc,               \* the statement of __main__ / train_one_epoch about to run
    err,              \* the exception that ended the run, "none" while it runs
    cfg,              \* the Config read at line 78
    train_size, test_size, val_size,    \* lines 90-94
    n_batches,        \* len(train_dl)
    total_steps, warmup_steps,          \* lines 119, 121
    last_epoch,       \* the LambdaLR step counter (scheduler.last_epoch)
    lr,               \* the multiplier held by the optimizer's param group
    model, best_model,                  \* references to Module objects
    params,           \* heap: object |-> its parameters (see optimizer_step)
    best_val_metric,
    epoch,            \* the loop variable of line 142
    batch_idx,        \* batches drawn from train_dl in this call
    outputs,          \* the batch whose forward pass / loss is held
    grads,            \* the batches whose gradients are summed in .grad
    opt_log,          \* one record per optimizer.step() of the run
    processed,        \* batches accumulated into running_loss / predictions
    val_metrics,      \* the Metrics of the last validation pass
    val_seen,         \* history: the selected metric of every epoch so far
    phase_log,        \* history: the phases of the run, in order
    tested_params,    \* the parameters evaluate() saw at line 167
    checkpoint,       \* the content of {checkpoint_dir}/{model_name}.pt
    win_params,       \* history: the parameters at the last won selection
    \* ---- the harness of the pure computations ----
    h_pc, h_in, h_out

runVars ==
    << pc, err, cfg, train_size, test_size, val_size, n_batches, total_steps,
       warmup_steps, last_epoch, lr, model, best_model, params,
       best_val_metric, epoch, batch_idx, outputs, grads, opt_log, processed,
       val_metrics, val_seen, phase_log, tested_params, checkpoint,
       win_params >>

harnessVars == << h_pc, h_in, h_out >>

vars == << runVars, harnessVars >>

(***************************************************************************)
(* Bounds of the model.                                                    *)
(***************************************************************************)
MaxDataset == 12
MaxTotalSteps == 8
Overshoot == 3
MaxMetric == 2
MaxEpochs == 2

(***************************************************************************)
(* Values.                                                                 *)
(***************************************************************************)
\* An unbound Python name / an absent file is <<>>, a bound one is <<v>>.
Unbound == << >>
Bound(v) == << v >>
Val(o) == o[1]

Frac(n, d) == [num |-> n, den |-> d]

\* a / b on Python numbers: ZeroDivisionError when b = 0.
ZeroDivisionError == [num |-> 0, den |-> 0]
IsError(x) == x.den = 0
TrueDiv(a, b) ==
    IF b = 0 THEN ZeroDivisionError
    ELSE IF b < 0 THEN Frac(0 - a, 0 - b) ELSE Frac(a, b)

FracEq(x, y) == x.num * y.den = y.num * x.den

\* max(0.0, x)
Max0(x) == IF IsError(x) THEN x ELSE IF x.num < 0 THEN Frac(0, 1) ELSE x

\* float("inf") / float("-inf") against the finite metric values 0..MaxMetric.
NegInf == -1
PosInf == MaxMetric + 1
FiniteMetrics == 0..MaxMetric
NaN == PosInf + 1
MetricValues == NegInf..NaN

\* The comparisons of Python floats: false as soon as one side is NaN.
FloatLe(a, b) == a # NaN /\ b # NaN /\ a <= b
FloatLt(a, b) == a # NaN /\ b # NaN /\ a < b
FloatGt(a, b) == a # NaN /\ b # NaN /\ a > b
FloatEq(a, b) == a # NaN /\ b # NaN /\ a = b

Tenths == { Frac(k, 10) : k \in 1..9 }

\* The double products ratio * n (n <= 200, ratio in tenths) that fall just
\* below the exact integer: 0.7 * 90 = 62.99999999999999.
FloatProductRoundsBelow(ratio, n) ==
    ratio.num = 7 /\ ratio.den = 10 /\ n \in {90, 170, 180}

\* int(ratio * n) for n >= 0.
IntOfProduct(ratio, n) ==
    LET exact == (ratio.num * n) \div ratio.den
    IN  IF FloatProductRoundsBelow(ratio, n) THEN exact - 1 ELSE exact

(***************************************************************************)
(* Lines 88-94: the sizes of the three partitions.                         *)
(***************************************************************************)
\* As SplitSizes, with the validation size truncated from its own ratio.
SplitSizesTruncatedVal(dataset_size, train_ratio, test_val_ratio) ==
    LET tr  == IntOfProduct(train_ratio, dataset_size)
        tv  == dataset_size - tr
        te  == IntOfProduct(test_val_ratio, tv)
        rest == Frac(test_val_ratio.den - test_val_ratio.num, test_val_ratio.den)
    IN  [train_size |-> tr, test_val_size |-> tv, test_size |-> te,
         val_size |-> IntOfProduct(rest, tv)]

SplitSizes(dataset_size, train_ratio, test_val_ratio) ==
    LET tr  == IntOfProduct(train_ratio, dataset_size)
        tv  == dataset_size - tr
        te  == IntOfProduct(test_val_ratio, tv)
    IN  [train_size |-> tr, test_val_size |-> tv, test_size |-> te,
         val_size |-> tv - te]

\* len(DataLoader(dataset, batch_size)): drop_last is False.
LoaderLen(size, batch_size) == (size + batch_size - 1) \div batch_size

(***************************************************************************)
(* Lines 119-124: the schedule.                                            *)
(***************************************************************************)
TotalSteps(len_train_dl, epochs) == len_train_dl * epochs

WarmupSteps(total, warmup_ratio) == IntOfProduct(warmup_ratio, total)

\* As lr_warmup_linear_decay, without the floor at 0.
LrWithoutFloor(step, wsteps, tsteps) ==
    IF step < wsteps
    THEN TrueDiv(step, wsteps)
    ELSE TrueDiv(tsteps - step, tsteps - wsteps)

\* As lr_warmup_linear_decay, with the warmup branch taken at step = wsteps.
LrWarmupInclusive(step, wsteps, tsteps) ==
    IF step <= wsteps
    THEN TrueDiv(step, wsteps)
    ELSE Max0(TrueDiv(tsteps - step, tsteps - wsteps))

lr_warmup_linear_decay(step, wsteps, tsteps) ==
    IF step < wsteps
    THEN TrueDiv(step, wsteps)
    ELSE Max0(TrueDiv(tsteps - step, tsteps - wsteps))

(***************************************************************************)
(* Lines 53-73: the selection.                                             *)
(***************************************************************************)
\* As IsBest, strict in both directions.
IsBestStrict(metric, best_metric, lower_is_better) ==
    IF lower_is_better THEN FloatLt(metric, best_metric)
                       ELSE FloatGt(metric, best_metric)

\* Lines 63-66.
IsBest(metric, best_metric, lower_is_better) ==
    IF lower_is_better THEN FloatLe(metric, best_metric)
                       ELSE FloatGt(metric, best_metric)

\* As manage_best_model_and_metrics, retaining a copy of the selected model.
ManageBestWithCopy(m, evaluation_metric, vmetrics, best_metric, best, lower_is_better) ==
    LET metric == vmetrics[evaluation_metric]
    IN  IF IsBest(metric, best_metric, lower_is_better)
        THEN [best_val_metric |-> metric, best_model |-> "copy of " \o m]
        ELSE [best_val_metric |-> best_metric, best_model |-> best]

manage_best_model_and_metrics(m, evaluation_metric, vmetrics, best_metric, best, lower_is_better) ==
    LET metric == vmetrics[evaluation_metric]
    IN  IF IsBest(metric, best_metric, lower_is_better)
        THEN [best_val_metric |-> metric, best_model |-> m]
        ELSE [best_val_metric |-> best_metric, best_model |-> best]

(***************************************************************************)
(* The run: the configurations it is started with.                         *)
(***************************************************************************)
MetricNames == {"loss", "accuracy"}

\* A run that gets to evaluate() has a validation and a test partition that
\* are not empty: 10 samples split 7 / 1 / 2, 20 samples 14 / 3 / 3.
RunConfigs ==
    [ dataset_size      : {0, 10, 20},
      train_ratio       : {Frac(7, 10)},
      test_val_ratio    : {Frac(5, 10)},
      batch_size        : {3, 4, 10},
      epochs            : 0..MaxEpochs,
      warmup_ratio      : {Frac(0, 10), Frac(1, 10), Frac(5, 10), Frac(10, 10)},
      evaluation_metric : MetricNames,
      lower_is_better   : BOOLEAN ]

\* 100 samples, 70 of them for training, in batches of 10, for one epoch.
ScenarioConfigs ==
    { [ dataset_size |-> 100, train_ratio |-> Frac(7, 10),
        test_val_ratio |-> Frac(5, 10), batch_size |-> 10, epochs |-> 1,
        warmup_ratio |-> Frac(1, 10), evaluation_metric |-> "accuracy",
        lower_is_better |-> FALSE ] }

\* What evaluate() (module metrics) returns over a non-empty partition: a
\* Metrics mapping of finite values.  It updates no parameter.
MetricsSet == [MetricNames -> FiniteMetrics]

RunState(p, c) ==
    /\ pc = p
    /\ err = "none"
    /\ cfg = c
    /\ train_size = Unbound /\ test_size = Unbound /\ val_size = Unbound
    /\ n_batches = Unbound
    /\ total_steps = Unbound /\ warmup_steps = Unbound
    /\ last_epoch = Unbound
    /\ lr = Unbound
    /\ model = Unbound /\ best_model = Unbound
    /\ params = << >>
    /\ best_val_metric = Unbound
    /\ epoch = 0
    /\ batch_idx = 0
    /\ outputs = Unbound
    /\ grads = {}
    /\ opt_log = << >>
    /\ processed = << >>
    /\ val_metrics = Unbound
    /\ val_seen = {}
    /\ phase_log = << >>
    /\ tested_params = Unbound
    /\ checkpoint = Unbound
    /\ win_params = Unbound

RunInit(c) == RunState("split", c)

HarnessIdle == h_pc = "idle" /\ h_in = Unbound /\ h_out = Unbound

Init == (\E c \in RunConfigs \cup ScenarioConfigs : RunInit(c)) /\ HarnessIdle

Raise(e) == pc' = "error" /\ err' = e

(***************************************************************************)
(* __main__, lines 85-131: everything before the epoch loop.               *)
(***************************************************************************)
\* Lines 88-96.
SplitData ==
    /\ pc = "split"
    /\ LET sz == SplitSizes(cfg.dataset_size, cfg.train_ratio, cfg.test_val_ratio)
       IN  /\ train_size' = Bound(sz.train_size)
           /\ test_size' = Bound(sz.test_size)
           /\ val_size' = Bound(sz.val_size)
    /\ pc' = "build_loaders"
    /\ UNCHANGED << err, cfg, n_batches, total_steps, warmup_steps, last_epoch,
                    lr, model, best_model, params, best_val_metric, epoch,
                    batch_idx, outputs, grads, opt_log, processed, val_metrics,
                    val_seen, phase_log, tested_params, checkpoint, win_params,
                    harnessVars >>

\* Lines 99-102.  A shuffling loader over an empty partition is refused by
\* some versions of the library (RandomSampler: num_samples must be positive)
\* and accepted by others.
BuildLoaders ==
    /\ pc = "build_loaders"
    /\ \/ /\ n_batches' = Bound(LoaderLen(Val(train_size), cfg.batch_size))
          /\ pc' = "build_model"
          /\ err' = err
       \/ /\ Val(train_size) = 0
          /\ Raise("DataLoader: ValueError")
          /\ n_batches' = n_batches
    /\ UNCHANGED << cfg, train_size, test_size, val_size, total_steps,
                    warmup_steps, last_epoch, lr, model, best_model, params,
                    best_val_metric, epoch, batch_idx, outputs, grads, opt_log,
                    processed, val_metrics, val_seen, phase_log, tested_params,
                    checkpoint, win_params, harnessVars >>

\* Lines 105-106: the one Module object of the run, with its initial
\* parameters.
BuildModel ==
    /\ pc = "build_model"
    /\ model' = Bound("EmovoCNN#1")
    /\ params' = [o \in {"EmovoCNN#1"} |-> 0]
    /\ pc' = "build_optimizer"
    /\ UNCHANGED << err, cfg, train_size, test_size, val_size, n_batches,
                    total_steps, warmup_steps, last_epoch, lr, best_model,
                    best_val_metric, epoch, batch_idx, outputs, grads, opt_log,
                    processed, val_metrics, val_seen, phase_log, tested_params,
                    checkpoint, win_params, harnessVars >>

\* Lines 109-115: the optimizer over model.parameters(), at the base rate.
BuildOptimizer ==
    /\ pc = "build_optimizer"
    /\ lr' = Bound(Frac(1, 1))
    /\ pc' = "build_scheduler"
    /\ UNCHANGED << err, cfg, train_size, test_size, val_size, n_batches,
                    total_steps, warmup_steps, last_epoch, model, best_model,
                    params, best_val_metric, epoch, batch_idx, outputs, grads,
                    opt_log, processed, val_metrics, val_seen, phase_log,
                    tested_params, checkpoint, win_params, harnessVars >>

\* Lines 118-126.  LambdaLR's constructor takes the scheduler's initial
\* step: the counter becomes 0 and the multiplier is evaluated at 0.
BuildScheduler ==
    /\ pc = "build_scheduler"
    /\ LET t == TotalSteps(Val(n_batches), cfg.epochs)
           w == WarmupSteps(t, cfg.warmup_ratio)
           m == lr_warmup_linear_decay(0, w, t)
       IN  /\ total_steps' = Bound(t)
           /\ warmup_steps' = Bound(w)
           /\ last_epoch' = Bound(0)
           /\ IF IsError(m)
              THEN Raise("lr_lambda: ZeroDivisionError") /\ lr' = lr
              ELSE pc' = "init_best" /\ err' = err /\ lr' = Bound(m)
    /\ UNCHANGED << cfg, train_size, test_size, val_size, n_batches, model,
                    best_model, params, best_val_metric, epoch, batch_idx,
                    outputs, grads, opt_log, processed, val_metrics, val_seen,
                    phase_log, tested_params, checkpoint, win_params,
                    harnessVars >>

\* Line 130.
InitialBest(lower_is_better) == IF lower_is_better THEN PosInf ELSE NegInf

\* Lines 129-131.
InitBest ==
    /\ pc = "init_best"
    /\ best_val_metric' = Bound(InitialBest(cfg.lower_is_better))
    /\ best_model' = model
    /\ pc' = "epoch_loop"
    /\ UNCHANGED << err, cfg, train_size, test_size, val_size, n_batches,
                    total_steps, warmup_steps, last_epoch, lr, model, params,
                    epoch, batch_idx, outputs, grads, opt_log, processed,
                    val_metrics, val_seen, phase_log, tested_params,
                    checkpoint, win_params, harnessVars >>

(***************************************************************************)
(* __main__, line 142: the head of the epoch loop.  epoch counts the       *)
(* iterations completed.                                                   *)
(***************************************************************************)
\* As LoopContinues, one iteration short.
LoopContinuesOneShort(e, epochs) == e + 1 < epochs

\* for epoch in range(epochs)
LoopContinues(e, epochs) == e < epochs

EpochLoop ==
    /\ pc = "epoch_loop"
    /\ pc' = IF LoopContinues(epoch, cfg.epochs) THEN "train_begin"
                                                 ELSE "final_test_eval"
    /\ UNCHANGED << err, cfg, train_size, test_size, val_size, n_batches,
                    total_steps, warmup_steps, last_epoch, lr, model,
                    best_model, params, best_val_metric, epoch, batch_idx,
                    outputs, grads, opt_log, processed, val_metrics, val_seen,
                    phase_log, tested_params, checkpoint, win_params,
                    harnessVars >>

(***************************************************************************)
(* train_one_epoch, lines 25-51, called at line 145.                       *)
(***************************************************************************)
\* The batch drawn last, numbered over the whole run from 1.
CurBatch == epoch * Val(n_batches) + batch_idx

\* As NextStatement, with scheduler.step() before optimizer.step().
NextStatementSchedFirst(stmt) ==
    CASE stmt = "zero_grad"  -> "forward"
      [] stmt = "forward"    -> "loss"
      [] stmt = "loss"       -> "backward"
      [] stmt = "backward"   -> "sched_step"
      [] stmt = "sched_step" -> "opt_step"
      [] stmt = "opt_step"   -> "accumulate"
      [] stmt = "accumulate" -> "for_batch"

\* As NextStatement, with scheduler.step() left out of the loop body.
NextStatementNoSched(stmt) ==
    CASE stmt = "zero_grad"  -> "forward"
      [] stmt = "forward"    -> "loss"
      [] stmt = "loss"       -> "backward"
      [] stmt = "backward"   -> "opt_step"
      [] stmt = "opt_step"   -> "accumulate"
      [] stmt = "sched_step" -> "accumulate"
      [] stmt = "accumulate" -> "for_batch"

\* The statements of the loop body in program order (lines 37-49).
NextStatement(stmt) ==
    CASE stmt = "zero_grad"  -> "forward"
      [] stmt = "forward"    -> "loss"
      [] stmt = "loss"       -> "backward"
      [] stmt = "backward"   -> "opt_step"
      [] stmt = "opt_step"   -> "sched_step"
      [] stmt = "sched_step" -> "accumulate"
      [] stmt = "accumulate" -> "for_batch"

\* optimizer.step(): the parameters after an update with the gradients g at
\* the rate base_lr * rate.  Parameters are abstracted to the number of
\* updates that moved them; a zero rate or no gradient moves nothing.
optimizer_step(p, g, rate) == IF rate.num = 0 \/ g = {} THEN p ELSE p + 1

\* Lines 25-28.
TrainBegin ==
    /\ pc = "train_begin"
    /\ batch_idx' = 0
    /\ processed' = << >>
    /\ phase_log' = Append(phase_log, "TRAIN_EPOCH")
    /\ pc' = "for_batch"
    /\ UNCHANGED << err, cfg, train_size, test_size, val_size, n_batches,
                    total_steps, warmup_steps, last_epoch, lr, model,
                    best_model, params, best_val_metric, epoch, outputs, grads,
                    opt_log, val_metrics, val_seen, tested_params, checkpoint,
                    win_params, harnessVars >>

\* Lines 30-35: the next batch of the loader, or the end of the loop.
ForBatch ==
    /\ pc = "for_batch"
    /\ IF batch_idx < Val(n_batches)
       THEN batch_idx' = batch_idx + 1 /\ pc' = "zero_grad"
       ELSE batch_idx' = batch_idx /\ pc' = "train_return"
    /\ UNCHANGED << err, cfg, train_size, test_size, val_size, n_batches,
                    total_steps, warmup_steps, last_epoch, lr, model,
                    best_model, params, best_val_metric, epoch, outputs, grads,
                    opt_log, processed, val_metrics, val_seen, phase_log,
                    tested_params, checkpoint, win_params, harnessVars >>

\* Line 37.
ZeroGrad ==
    /\ pc = "zero_grad"
    /\ grads' = {}
    /\ pc' = NextStatement("zero_grad")
    /\ UNCHANGED << err, cfg, train_size, test_size, val_size, n_batches,
                    total_steps, warmup_steps, last_epoch, lr, model,
                    best_model, params, best_val_metric, epoch, batch_idx,
                    outputs, opt_log, processed, val_metrics, val_seen,
                    phase_log, tested_params, checkpoint, win_params,
                    harnessVars >>

\* Line 39.
Forward ==
    /\ pc = "forward"
    /\ outputs' = Bound([batch |-> CurBatch, loss |-> FALSE])
    /\ pc' = NextStatement("forward")
    /\ UNCHANGED << err, cfg, train_size, test_size, val_size, n_batches,
                    total_steps, warmup_steps, last_epoch, lr, model,
                    best_model, params, best_val_metric, epoch, batch_idx,
                    grads, opt_log, processed, val_metrics, val_seen,
                    phase_log, tested_params, checkpoint, win_params,
                    harnessVars >>

\* Line 40.
Loss ==
    /\ pc = "loss"
    /\ outputs' = Bound([Val(outputs) EXCEPT !.loss = TRUE])
    /\ pc' = NextStatement("loss")
    /\ UNCHANGED << err, cfg, train_size, test_size, val_size, n_batches,
                    total_steps, warmup_steps, last_epoch, lr, model,
                    best_model, params, best_val_metric, epoch, batch_idx,
                    grads, opt_log, processed, val_metrics, val_seen,
                    phase_log, tested_params, checkpoint, win_params,
                    harnessVars >>

\* Line 41: the gradients of the loss are added to those already in .grad.
Backward ==
    /\ pc = "backward"
    /\ grads' = grads \cup {Val(outputs).batch}
    /\ pc' = NextStatement("backward")
    /\ UNCHANGED << err, cfg, train_size, test_size, val_size, n_batches,
                    total_steps, warmup_steps, last_epoch, lr, model,
                    best_model, params, best_val_metric, epoch, batch_idx,
                    outputs, opt_log, processed, val_metrics, val_seen,
                    phase_log, tested_params, checkpoint, win_params,
                    harnessVars >>

\* Line 42: the update, in place, of the parameters of the object the
\* optimizer was built over.
OptStep ==
    /\ pc = "opt_step"
    /\ params' = [params EXCEPT ![Val(model)] = optimizer_step(@, grads, Val(lr))]
    /\ opt_log' = Append(opt_log, [batch |-> CurBatch, grads |-> grads,
                                   lr |-> Val(lr), sched |-> Val(last_epoch)])
    /\ pc' = NextStatement("opt_step")
    /\ UNCHANGED << err, cfg, train_size, test_size, val_size, n_batches,
                    total_steps, warmup_steps, last_epoch, lr, model,
                    best_model, best_val_metric, epoch, batch_idx, outputs,
                    grads, processed, val_metrics, val_seen, phase_log,
                    tested_params, checkpoint, win_params, harnessVars >>

\* Line 43: LambdaLR.step() advances the counter, then evaluates the
\* multiplier at it.
SchedStep ==
    /\ pc = "sched_step"
    /\ last_epoch' = Bound(Val(last_epoch) + 1)
    /\ LET m == lr_warmup_linear_decay(Val(last_epoch) + 1, Val(warmup_steps),
                                       Val(total_steps))
       IN  IF IsError(m)
           THEN Raise("lr_lambda: ZeroDivisionError") /\ lr' = lr
           ELSE pc' = NextStatement("sched_step") /\ err' = err /\ lr' = Bound(m)
    /\ UNCHANGED << cfg, train_size, test_size, val_size, n_batches,
                    total_steps, warmup_steps, model, best_model, params,
                    best_val_metric, epoch, batch_idx, outputs, grads, opt_log,
                    processed, val_metrics, val_seen, phase_log, tested_params,
                    checkpoint, win_params, harnessVars >>

\* Lines 45-49.
Accumulate ==
    /\ pc = "accumulate"
    /\ processed' = Append(processed, Val(outputs).batch)
    /\ pc' = NextStatement("accumulate")
    /\ UNCHANGED << err, cfg, train_size, test_size, val_size, n_batches,
                    total_steps, warmup_steps, last_epoch, lr, model,
                    best_model, params, best_val_metric, epoch, batch_idx,
                    outputs, grads, opt_log, val_metrics, val_seen, phase_log,
                    tested_params, checkpoint, win_params, harnessVars >>

\* Line 51: the metrics of the epoch (printed at line 153, not kept).
TrainReturn ==
    /\ pc = "train_return"
    /\ pc' = "eval_epoch"
    /\ UNCHANGED << err, cfg, train_size, test_size, val_size, n_batches,
                    total_steps, warmup_steps, last_epoch, lr, model,
                    best_model, params, best_val_metric, epoch, batch_idx,
                    outputs, grads, opt_log, processed, val_metrics, val_seen,
                    phase_log, tested_params, checkpoint, win_params,
                    harnessVars >>

(***************************************************************************)
(* __main__, lines 146-177: validation, selection, and the end of the run. *)
(***************************************************************************)
\* Lines 146-154.
EvalEpoch ==
    /\ pc = "eval_epoch"
    /\ \E ms \in MetricsSet : val_metrics' = Bound(ms)
    /\ phase_log' = Append(phase_log, "EVAL_EPOCH")
    /\ pc' = "select_best"
    /\ UNCHANGED << err, cfg, train_size, test_size, val_size, n_batches,
                    total_steps, warmup_steps, last_epoch, lr, model,
                    best_model, params, best_val_metric, epoch, batch_idx,
                    outputs, grads, opt_log, processed, val_seen,
                    tested_params, checkpoint, win_params, harnessVars >>

\* Lines 156-164, and the end of the iteration.
SelectBest ==
    /\ pc = "select_best"
    /\ LET metric == Val(val_metrics)[cfg.evaluation_metric]
           r == manage_best_model_and_metrics(Val(model), cfg.evaluation_metric,
                    Val(val_metrics), Val(best_val_metric), Val(best_model),
                    cfg.lower_is_better)
       IN  /\ best_val_metric' = Bound(r.best_val_metric)
           /\ best_model' = Bound(r.best_model)
           /\ val_seen' = val_seen \cup {metric}
           /\ win_params' =
                 IF IsBest(metric, Val(best_val_metric), cfg.lower_is_better)
                 THEN Bound(params[Val(model)]) ELSE win_params
    /\ phase_log' = Append(phase_log, "SELECT_BEST")
    /\ epoch' = epoch + 1
    /\ pc' = "epoch_loop"
    /\ UNCHANGED << err, cfg, train_size, test_size, val_size, n_batches,
                    total_steps, warmup_steps, last_epoch, lr, model, params,
                    batch_idx, outputs, grads, opt_log, processed, val_metrics,
                    tested_params, checkpoint, harnessVars >>

\* Lines 167-169: the test metrics of best_model (printed, not kept).
FinalTestEval ==
    /\ pc = "final_test_eval"
    /\ tested_params' = Bound(params[Val(best_model)])
    /\ phase_log' = Append(phase_log, "FINAL_TEST_EVAL")
    /\ pc' = "persist"
    /\ UNCHANGED << err, cfg, train_size, test_size, val_size, n_batches,
                    total_steps, warmup_steps, last_epoch, lr, model,
                    best_model, params, best_val_metric, epoch, batch_idx,
                    outputs, grads, opt_log, processed, val_metrics, val_seen,
                    checkpoint, win_params, harnessVars >>

\* Lines 172-177: best_model.state_dict() written over the checkpoint file.
Persist ==
    /\ pc = "persist"
    /\ checkpoint' = Bound(params[Val(best_model)])
    /\ phase_log' = Append(phase_log, "PERSIST")
    /\ pc' = "done"
    /\ UNCHANGED << err, cfg, train_size, test_size, val_size, n_batches,
                    total_steps, warmup_steps, last_epoch, lr, model,
                    best_model, params, best_val_metric, epoch, batch_idx,
                    outputs, grads, opt_log, processed, val_metrics, val_seen,
                    tested_params, win_params, harnessVars >>

Next ==
    \/ SplitData \/ BuildLoaders \/ BuildModel \/ BuildOptimizer
    \/ BuildScheduler \/ InitBest \/ EpochLoop
    \/ TrainBegin \/ ForBatch \/ ZeroGrad \/ Forward \/ Loss \/ Backward
    \/ OptStep \/ SchedStep \/ Accumulate \/ TrainReturn
    \/ EvalEpoch \/ SelectBest \/ FinalTestEval \/ Persist

Spec == Init /\ [][Next]_vars

\* One thread runs the script: a statement that can run does run.
FairSpec == Spec /\ WF_vars(Next)

(***************************************************************************)
(* The pure computations on their own: the arguments are drawn in the      *)
(* initial state, one step applies the computation.  The run is parked.    *)
(***************************************************************************)
RunParked ==
    RunState("parked", CHOOSE c \in ScenarioConfigs : TRUE)

\* ---- lines 88-94 ----
SplitInputs ==
    [ dataset_size   : (0..MaxDataset) \cup {90, 100},
      train_ratio    : Tenths,
      test_val_ratio : Tenths ]

SplitInit ==
    /\ RunParked
    /\ h_pc = "split_sizes" /\ h_in \in SplitInputs /\ h_out = Unbound

SplitApply ==
    /\ h_pc = "split_sizes" /\ h_out = Unbound
    /\ h_out' = Bound(SplitSizes(h_in.dataset_size, h_in.train_ratio,
                                 h_in.test_val_ratio))
    /\ UNCHANGED << runVars, h_pc, h_in >>

SpecSplit == SplitInit /\ [][SplitApply]_vars

\* ---- lines 119-124 ----
LRInputs ==
    { [total_steps |-> t, warmup_ratio |-> Frac(k, 10), step |-> st] :
        t \in (0..MaxTotalSteps) \cup {100}, k \in 0..10,
        st \in 0..(MaxTotalSteps + Overshoot) \cup {55, 100, 100 + Overshoot} }

LRInit ==
    /\ RunParked
    /\ h_pc = "lr_lambda" /\ h_in \in LRInputs /\ h_out = Unbound

LRApply ==
    /\ h_pc = "lr_lambda" /\ h_out = Unbound
    /\ LET w == WarmupSteps(h_in.total_steps, h_in.warmup_ratio)
       IN  h_out' = Bound([warmup_steps |-> w,
                           multiplier |-> lr_warmup_linear_decay(h_in.step, w,
                                              h_in.total_steps)])
    /\ UNCHANGED << runVars, h_pc, h_in >>

SpecLR == LRInit /\ [][LRApply]_vars

\* ---- lines 53-73 ----
Objects == {"EmovoCNN#1", "EmovoCNN#2"}

SelectInputs ==
    [ model             : Objects,
      evaluation_metric : MetricNames,
      val_metrics       : [MetricNames -> MetricValues],
      best_val_metric   : MetricValues,
      best_model        : Objects,
      lower_is_better   : BOOLEAN ]

SelectInit ==
    /\ RunParked
    /\ h_pc = "select" /\ h_in \in SelectInputs /\ h_out = Unbound

SelectApply ==
    /\ h_pc = "select" /\ h_out = Unbound
    /\ h_out' = Bound(manage_best_model_and_metrics(h_in.model,
                        h_in.evaluation_metric, h_in.val_metrics,
                        h_in.best_val_metric, h_in.best_model,
                        h_in.lower_is_better))
    /\ UNCHANGED << runVars, h_pc, h_in >>

SpecSelect == SelectInit /\ [][SelectApply]_vars

(***************************************************************************)
(* Properties of the pure computations.                                    *)
(***************************************************************************)
Applied(what) == h_pc = what /\ h_out # Unbound

\* C1: manage_best_model_and_metrics selects a candidate whose metric equals
\* the current best when lower_is_better (it returns the candidate's metric
\* and the passed model) and not otherwise (it returns both inputs
\* unchanged); a candidate whose metric differs is selected exactly when it
\* is lower (lower_is_better) or higher (otherwise).
C1_TieBreaking ==
    Applied("select") =>
        LET m    == h_in.val_metrics[h_in.evaluation_metric]
            b    == h_in.best_val_metric
            out  == Val(h_out)
            won  == [best_val_metric |-> m, best_model |-> h_in.model]
            kept == [best_val_metric |-> b, best_model |-> h_in.best_model]
        IN  /\ (FloatEq(m, b) /\ h_in.lower_is_better) => out = won
            /\ (FloatEq(m, b) /\ ~h_in.lower_is_better) => out = kept
            /\ (~FloatEq(m, b) /\ h_in.lower_is_better) =>
                   out = IF FloatLt(m, b) THEN won ELSE kept
            /\ (~FloatEq(m, b) /\ ~h_in.lower_is_better) =>
                   out = IF FloatGt(m, b) THEN won ELSE kept

\* A tie under lower_is_better, between two different models, selected.
C1_Witness ==
    /\ Applied("select")
    /\ h_in.lower_is_better
    /\ FloatEq(h_in.val_metrics[h_in.evaluation_metric], h_in.best_val_metric)
    /\ h_in.model # h_in.best_model
    /\ Val(h_out).best_model = h_in.model

\* C3: for 0 < warmup_steps < total_steps the multiplier is 0 at step 0,
\* s / warmup_steps below warmup_steps, 1 at warmup_steps,
\* (total_steps - s) / (total_steps - warmup_steps) from there to
\* total_steps, 0 at total_steps and 0, never negative, beyond; with
\* total_steps = 100 and warmup_ratio = 0.1, warmup_steps is 10 and the
\* multiplier is 1/2 at step 5, 1 at step 10, 45/90 at step 55 and 0 at
\* step 100.
C3_WarmupDecay ==
    Applied("lr_lambda") =>
        LET t == h_in.total_steps
            s == h_in.step
            w == Val(h_out).warmup_steps
            m == Val(h_out).multiplier
        IN  /\ (0 < w /\ w < t) =>
                /\ ~IsError(m) /\ m.den > 0 /\ m.num >= 0
                /\ s = 0 => m.num = 0
                /\ s < w => FracEq(m, Frac(s, w))
                /\ s = w => FracEq(m, Frac(1, 1))
                /\ (w <= s /\ s <= t) => FracEq(m, Frac(t - s, t - w))
                /\ s = t => m.num = 0
                /\ s > t => m.num = 0
            /\ (t = 100 /\ h_in.warmup_ratio = Frac(1, 10)) =>
                /\ w = 10
                /\ s = 5 => FracEq(m, Frac(1, 2))
                /\ s = 10 => FracEq(m, Frac(1, 1))
                /\ s = 55 => FracEq(m, Frac(45, 90)) /\ FracEq(m, Frac(1, 2))
                /\ s = 100 => FracEq(m, Frac(0, 1))

\* The multiplier evaluated beyond total_steps, where the decay is negative.
C3_Witness ==
    /\ Applied("lr_lambda")
    /\ 0 < Val(h_out).warmup_steps
    /\ Val(h_out).warmup_steps < h_in.total_steps
    /\ h_in.step > h_in.total_steps
    /\ Val(h_out).multiplier.num = 0

\* C5: for every dataset size N >= 0 and ratios in (0,1) the sizes
\* train = int(train_ratio * N), test = int(test_val_ratio * (N - train)),
\* val = (N - train) - test are non-negative integers that sum to N, the
\* truncations never exceeding the exact products; for N = 100, ratios 0.7
\* and 0.5 they are 70, 15 and 15.
C5_SplitSizes ==
    Applied("split_sizes") =>
        LET n  == h_in.dataset_size
            o  == Val(h_out)
            r1 == h_in.train_ratio
            r2 == h_in.test_val_ratio
        IN  /\ o.train_size \in Nat /\ o.test_size \in Nat /\ o.val_size \in Nat
            /\ o.train_size + o.test_size + o.val_size = n
            /\ o.val_size = (n - o.train_size) - o.test_size
            /\ o.train_size * r1.den <= r1.num * n
            /\ o.test_size * r2.den <= r2.num * (n - o.train_size)
            /\ (n = 100 /\ r1 = Frac(7, 10) /\ r2 = Frac(5, 10)) =>
                   /\ o.train_size = 70 /\ o.test_val_size = 30
                   /\ o.test_size = 15 /\ o.val_size = 15

\* A split in which both truncations drop a fraction and the validation
\* partition takes the remainder.
C5_Witness ==
    /\ Applied("split_sizes")
    /\ h_in.dataset_size = 7
    /\ h_in.train_ratio = Frac(7, 10) /\ h_in.test_val_ratio = Frac(5, 10)
    /\ Val(h_out) = [train_size |-> 4, test_val_size |-> 3, test_size |-> 1,
                     val_size |-> 2]

(***************************************************************************)
(* Properties of the run.                                                  *)
(***************************************************************************)
InLoopBody ==
    pc \in {"zero_grad", "forward", "loss", "backward", "opt_step",
            "sched_step", "accumulate"}

AfterLoop == pc \in {"final_test_eval", "persist", "done"}

SchedulerBuilt == last_epoch # Unbound

LrError == "lr_lambda: ZeroDivisionError"

\* C2: the parameters evaluated at FINAL_TEST_EVAL and written at PERSIST
\* are those the model had at the end of the epoch that last won selection,
\* whatever training came after it.
C2_BestParametersRetained ==
    (pc = "done" /\ win_params # Unbound) =>
        /\ tested_params = win_params
        /\ checkpoint = win_params

\* C4: the scheduler's counter is the number of training batches whose
\* scheduler.step() has run: one more per batch and nothing more from
\* evaluation, selection or an epoch boundary; k * len(train_dl) after k
\* epochs, total_steps when the loop ends; 7 after the one epoch of 70
\* samples in batches of 10.
C4_SchedulerStepsPerBatch ==
    SchedulerBuilt =>
        LET nb == Val(n_batches)
            pending == IF pc \in {"zero_grad", "forward", "loss", "backward",
                                  "opt_step", "sched_step"} THEN 1 ELSE 0
            \* batch_idx is a local of the call of train_one_epoch in progress
            \* (or, at select_best and in the error state, just ended)
            drawn == IF InLoopBody \/ pc \in {"for_batch", "train_return",
                                               "eval_epoch", "select_best",
                                               "error"}
                     THEN batch_idx ELSE 0
        IN  /\ Val(last_epoch) = epoch * nb + drawn - pending
            /\ pc = "epoch_loop" => Val(last_epoch) = epoch * nb
            /\ AfterLoop =>
                   /\ Val(last_epoch) = Val(total_steps)
                   /\ Val(total_steps) = nb * cfg.epochs
            /\ (cfg \in ScenarioConfigs /\ pc = "eval_epoch") =>
                   /\ Val(train_size) = 70 /\ nb = 7
                   /\ Val(last_epoch) = 7

\* The scenario run after its one epoch.
C4_Witness ==
    /\ cfg \in ScenarioConfigs
    /\ pc = "final_test_eval"
    /\ Val(last_epoch) = 7 /\ Len(opt_log) = 7

\* C8: once bound, best_model is the object model is, at every point of the
\* run, so what an optimizer step writes is what best_model holds, at the
\* final evaluation and in the checkpoint too.
C8_BestModelAliasesModel ==
    /\ (pc \in {"epoch_loop", "train_begin", "for_batch", "train_return",
                "eval_epoch", "select_best"} \/ InLoopBody \/ AfterLoop)
          => best_model # Unbound
    /\ best_model # Unbound =>
          /\ best_model = model
          /\ params[Val(best_model)] = params[Val(model)]
    /\ tested_params # Unbound => tested_params = Bound(params[Val(model)])
    /\ checkpoint # Unbound => checkpoint = Bound(params[Val(model)])

\* A finished run whose last selection was lost: the checkpoint holds the
\* parameters of the live model, not those of the last win.
C8_Witness ==
    /\ pc = "done"
    /\ win_params # Unbound
    /\ Val(checkpoint) > Val(win_params)
    /\ Val(checkpoint) = params[Val(model)]

\* C9: in train_one_epoch every batch of the loader is processed once, and
\* per batch the statements run in the order zero_grad, forward, loss,
\* backward, optimizer.step, scheduler.step, accumulation: the update of
\* the batch preceded by s scheduler steps uses the multiplier of step s and
\* the gradients of that batch alone.
C9_BatchOrder ==
    SchedulerBuilt =>
        LET nb == Val(n_batches) IN
        /\ \A i \in 1..Len(opt_log) :
              /\ opt_log[i].batch = i
              /\ opt_log[i].grads = {i}
              /\ opt_log[i].sched = i - 1
              /\ FracEq(opt_log[i].lr,
                        lr_warmup_linear_decay(i - 1, Val(warmup_steps),
                                               Val(total_steps)))
        /\ pc \in {"forward", "loss"} => grads = {}
        /\ pc \in {"loss", "backward"} => Val(outputs).batch = CurBatch
        /\ pc = "loss" => ~Val(outputs).loss
        /\ pc = "backward" => Val(outputs).loss /\ grads = {}
        /\ pc = "opt_step" => grads = {CurBatch} /\ Len(opt_log) = CurBatch - 1
        /\ pc = "sched_step" =>
              Len(opt_log) = CurBatch /\ Val(last_epoch) = CurBatch - 1
        /\ pc = "accumulate" =>
              /\ Val(last_epoch) = CurBatch
              /\ Len(processed) = batch_idx - 1
        /\ pc \in {"for_batch", "train_return"} =>
              processed = [k \in 1..batch_idx |-> epoch * nb + k]
        /\ pc = "train_return" => batch_idx = nb /\ Len(processed) = nb

\* The end of an epoch of several batches, after updates at different rates.
C9_Witness ==
    /\ pc = "train_return"
    /\ Len(processed) >= 2
    /\ Len(opt_log) >= 2
    /\ ~FracEq(opt_log[1].lr, opt_log[2].lr)

\* C6: a run that does not fail performs exactly `epochs` iterations of
\* TRAIN_EPOCH, EVAL_EPOCH, SELECT_BEST in that order, then FINAL_TEST_EVAL
\* once, then PERSIST once, and nothing else; the checkpoint is written only
\* by PERSIST; and the run ends, in DONE unless a step failed.
Iteration == << "TRAIN_EPOCH", "EVAL_EPOCH", "SELECT_BEST" >>

RECURSIVE Iterations(_)
Iterations(n) == IF n = 0 THEN << >> ELSE Iterations(n - 1) \o Iteration

Lifecycle(epochs) == Iterations(epochs) \o << "FINAL_TEST_EVAL", "PERSIST" >>

IsPrefix(a, b) == Len(a) <= Len(b) /\ a = SubSeq(b, 1, Len(a))

C6_LifecycleOrder ==
    /\ IsPrefix(phase_log, Lifecycle(cfg.epochs))
    /\ pc = "final_test_eval" =>
          /\ epoch = cfg.epochs
          /\ phase_log = Iterations(cfg.epochs)
    /\ pc = "persist" =>
          phase_log = Iterations(cfg.epochs) \o << "FINAL_TEST_EVAL" >>
    /\ pc = "done" => phase_log = Lifecycle(cfg.epochs)
    /\ checkpoint # Unbound => pc = "done"
    /\ tested_params # Unbound => pc \in {"persist", "done"}

C6_Lifecycle == []C6_LifecycleOrder /\ <>(pc = "done" \/ pc = "error")

\* A run of two iterations that reached DONE.
C6_Witness ==
    /\ pc = "done"
    /\ cfg.epochs = 2
    /\ Len(phase_log) = 8

\* C7 (as claimed): a run with warmup_steps = 0 ends in the division by zero
\* of the warmup branch.
C7_WarmupZeroDivides ==
    (warmup_steps = Bound(0) /\ Val(total_steps) > 0 /\ pc \in {"done", "error"})
        => err = LrError

\* C7 (amended): with warmup_steps = 0 and total_steps > 0 no evaluated step
\* takes the warmup branch, the multiplier is (total_steps - s) / total_steps
\* floored at 0 and the schedule does not fail; the schedule divides by zero
\* exactly when a step s >= warmup_steps is evaluated with
\* total_steps = warmup_steps.
C7_DecayDenominatorZero ==
    SchedulerBuilt =>
        LET s == Val(last_epoch)
            w == Val(warmup_steps)
            t == Val(total_steps)
        IN  /\ (w = 0 /\ t > 0) =>
                 /\ err # LrError
                 /\ FracEq(Val(lr), Max0(Frac(t - s, t)))
            /\ err = LrError <=> (t = w /\ s >= w)

\* A run with warmup_steps = 0 that trained and reached DONE.
C7_Witness ==
    /\ pc = "done"
    /\ warmup_steps = Bound(0)
    /\ Val(total_steps) > 0
    /\ Val(last_epoch) = Val(total_steps)

\* C10: best_val_metric starts at +inf (lower_is_better) or -inf, is the
\* minimum or the maximum of the selected validation metric of the epochs
\* completed, and a run with epochs = 0 goes through FINAL_TEST_EVAL and
\* PERSIST with the initial value.
SetMin(S) == CHOOSE x \in S : \A y \in S : x <= y
SetMax(S) == CHOOSE x \in S : \A y \in S : x >= y

C10_BestMetricTracking ==
    /\ best_val_metric # Unbound =>
          Val(best_val_metric) =
              IF val_seen = {}
              THEN (IF cfg.lower_is_better THEN PosInf ELSE NegInf)
              ELSE (IF cfg.lower_is_better THEN SetMin(val_seen)
                                           ELSE SetMax(val_seen))
    /\ (cfg.epochs = 0 /\ train_size # Unbound /\ Val(train_size) > 0) =>
          /\ pc # "error"
          /\ AfterLoop =>
                best_val_metric =
                    Bound(IF cfg.lower_is_better THEN PosInf ELSE NegInf)

\* C10, the steps: best_val_metric changes only in selection, once per
\* epoch, and never away from the better side.
C10_BestMetricSteps ==
    [][best_val_metric # Unbound =>
          /\ best_val_metric' # best_val_metric =>
                pc = "select_best" /\ epoch' = epoch + 1
          /\ cfg.lower_is_better => Val(best_val_metric') <= Val(best_val_metric)
          /\ ~cfg.lower_is_better => Val(best_val_metric') >= Val(best_val_metric)
      ]_vars

====
